---- MODULE Spec2Model ----
(***************************************************************************)
(* Raw-mode terminal session of torus-edit.                                *)
(*                                                                         *)
(* Two implementations of the guard and the session loop exist in the      *)
(* repository: src/main.rs (the first draft) and                           *)
(* src/torus/terminal_handler.rs, whose loop calls the keypress decoder of *)
(* src/torus/input_handler.rs.  The variable impl selects the one that a   *)
(* behaviour runs.                                                         *)
(*                                                                         *)
(* The terminal device is modelled by its termios block (dev), its input   *)
(* queue (kq: bytes typed and not yet read from fd 0) and the bytes the    *)
(* user has still to type (future).  std::io::Stdin is a buffered reader:  *)
(* a read through it takes every byte that is queued on fd 0 into its own  *)
(* buffer (sbuf); libc::read on fd 0 never sees that buffer.               *)
(***************************************************************************)
EXTENDS Integers, Sequences, FiniteSets, TLC

VARIABLES
    impl,          \* "main" (src/main.rs) or "torus" (src/torus/...)
    dev,           \* termios block of the terminal device
    pre,           \* dev immediately before enable_raw_mode was called
    guard,         \* <<>> or <<g>>, g the live RawModeGuard
    entered,       \* enable_raw_mode has returned Ok
    enableErr,     \* "none", "get" (tcgetattr failed), "set" (tcsetattr failed)
    applied,       \* <<>> or <<t>>, t the termios enable_raw_mode passed to tcsetattr
    pc,            \* position of the session's control flow
    exit,          \* how run_app_in_raw_mode was left
    restoreCount,  \* number of executions of the tcsetattr of Drop
    restoreOk,     \* outcome of the last tcsetattr of Drop
    script,        \* the whole scripted input (never changes)
    future,        \* bytes not typed yet
    kq,            \* bytes queued on fd 0
    sbuf,          \* buffer of std::io::Stdin
    hup,           \* the source has signalled end of input
    stdoutBroken,  \* writes to stdout fail
    c,             \* first byte read by process_keypress
    d,             \* <<>> or <<b2>>, the byte read after an escape byte
    ret,           \* <<>> (None) or <<b>> (Some(b)): result of process_keypress
    branch,        \* branch of process_keypress taken by the last call
    echoed,        \* bytes the loop wrote back to stdout
    discarded,     \* bytes thrown away by tcflush
    loopTook,      \* bytes the loop's own read_exact returned
    decTook,       \* bytes editor_read_key returned
    nFail,         \* failed reads so far
    readAfterFail, \* a read was issued after a failed one
    dropped,       \* <<>> or <<g>>, g the RawModeGuard that Drop has run for
    screenClears   \* calls of clear_screen

vars == <<impl, dev, pre, guard, entered, enableErr, applied, pc, exit,
          restoreCount, restoreOk, script, future, kq, sbuf, hup, stdoutBroken,
          c, d, ret, branch, echoed, discarded, loopTook, decTook, nFail,
          readAfterFail, dropped, screenClears>>

termVars == <<dev, pre, guard, entered, enableErr, applied, restoreCount, restoreOk, dropped>>
srcVars == <<future, kq, sbuf, hup>>
decVars == <<c, d, ret, branch, discarded, decTook>>

----------------------------------------------------------------------------
(* Bounds *)

MaxLen == 3
MaxRetry == 2
MaxRelease == 3

----------------------------------------------------------------------------
(* termios *)

LFlags == {"ICANON", "ECHO", "ISIG", "IEXTEN", "ECHOE"}
IFlags == {"ICRNL", "IXON"}
OFlags == {"OPOST"}

AllTermios ==
    [c_lflag : SUBSET LFlags, c_iflag : SUBSET IFlags, c_oflag : SUBSET OFlags,
     c_cc : [VMIN : {0, 1}, VTIME : {0, 2}, VINTR : {3}]]

CookedTermios ==
    [c_lflag |-> LFlags, c_iflag |-> IFlags, c_oflag |-> OFlags,
     c_cc |-> [VMIN |-> 0, VTIME |-> 2, VINTR |-> 3]]

RawVMin == 1
RawVTime == 0

\* raw mode that leaves the carriage-return translation on
TorusRawTermios_keepICRNL(t) ==
    [t EXCEPT !.c_lflag = (@ \ {"ICANON", "ECHO"}) \ {"ECHO", "ICANON", "ISIG", "IEXTEN"},
              !.c_cc = [@ EXCEPT !.VMIN = RawVMin, !.VTIME = RawVTime]]

TorusRawTermios(t) ==
    [t EXCEPT !.c_lflag = (@ \ {"ICANON", "ECHO"}) \ {"ECHO", "ICANON", "ISIG", "IEXTEN"},
              !.c_iflag = @ \ {"ICRNL"},
              !.c_cc = [@ EXCEPT !.VMIN = RawVMin, !.VTIME = RawVTime]]

MainRawTermios(t) ==
    [t EXCEPT !.c_lflag = @ \ {"ICANON", "ECHO"},
              !.c_cc = [@ EXCEPT !.VMIN = RawVMin, !.VTIME = RawVTime]]

RawTermios(t) == IF impl = "torus" THEN TorusRawTermios(t) ELSE MainRawTermios(t)

\* a guard that keeps the modified block instead of the original
NewGuard_raw(original_termios, raw_termios) == [original_termios |-> raw_termios]

\* the guard built by Ok(RawModeGuard { original_termios })
NewGuard(original_termios, raw_termios) == [original_termios |-> original_termios]

\* a restore of the flag words only, as the tests compare them
RestoredTermios_flagsOnly(g) ==
    [g.original_termios EXCEPT !.c_cc = [@ EXCEPT !.VMIN = RawVMin, !.VTIME = RawVTime]]

\* the termios that Drop passes to tcsetattr
RestoredTermios(g) == g.original_termios

\* tcsetattr(fd, TCSANOW, t): on success the device holds t, on failure it is unchanged
TcSetAttr(cur, t, ok) == IF ok THEN t ELSE cur

----------------------------------------------------------------------------
(* Keypress decoder *)

ESC == 27
KeyQ == 113
Byte == 0 .. 255

\* a control range that runs up to 31
Classify_c0(b) ==
    IF b = ESC THEN "escape"
    ELSE IF b >= 1 /\ b <= 31 THEN "control"
    ELSE IF b >= 32 /\ b <= 122 THEN "printable"
    ELSE "other"

Classify(b) ==
    IF b = ESC THEN "escape"
    ELSE IF b >= 1 /\ b <= 26 THEN "control"
    ELSE IF b >= 32 /\ b <= 122 THEN "printable"
    ELSE "other"

----------------------------------------------------------------------------
(* Inputs *)

SmallBytes == {3, 27, 97, 113, 200}

Scripts == UNION {[1 .. n -> SmallBytes] : n \in 0 .. MaxLen}

ShortScripts == {<<KeyQ>>, <<97, KeyQ>>}

\* every byte value as the first byte of a keypress, and as the byte after ESC
SweepScripts == {<<97, b>> : b \in Byte} \cup {<<97, ESC, b>> : b \in Byte}

Init ==
    /\ impl \in {"main", "torus"}
    /\ \/ dev \in AllTermios /\ script \in ShortScripts
       \/ dev = CookedTermios /\ script \in Scripts
       \/ dev = CookedTermios /\ script \in SweepScripts
    /\ pre = dev
    /\ guard = <<>>
    /\ entered = FALSE
    /\ enableErr = "none"
    /\ applied = <<>>
    /\ pc = "start"
    /\ exit = "none"
    /\ restoreCount = 0
    /\ restoreOk = FALSE
    /\ future = script
    /\ kq = <<>>
    /\ sbuf = <<>>
    /\ hup = FALSE
    /\ stdoutBroken = FALSE
    /\ c = 0
    /\ d = <<>>
    /\ ret = <<>>
    /\ branch = "none"
    /\ echoed = <<>>
    /\ discarded = <<>>
    /\ loopTook = <<>>
    /\ decTook = <<>>
    /\ nFail = 0
    /\ readAfterFail = FALSE
    /\ dropped = <<>>
    /\ screenClears = 0

----------------------------------------------------------------------------
(* Environment: the user at the keyboard, the two ends of the terminal *)

\* one more byte of the script arrives on fd 0
Type ==
    /\ pc # "done"
    /\ future # <<>>
    /\ kq' = Append(kq, Head(future))
    /\ future' = Tail(future)
    /\ UNCHANGED <<impl, termVars, pc, exit, script, sbuf, hup, stdoutBroken,
                   decVars, echoed, loopTook, nFail, readAfterFail, screenClears>>

\* the source ends after the last byte of the script: reads on an empty queue return 0
Hangup ==
    /\ pc # "done"
    /\ future = <<>>
    /\ ~hup
    /\ hup' = TRUE
    /\ UNCHANGED <<impl, termVars, pc, exit, script, future, kq, sbuf, stdoutBroken,
                   decVars, echoed, loopTook, nFail, readAfterFail, screenClears>>

\* stdout stops accepting writes: println! panics, write_all/flush return Err
BreakStdout ==
    /\ pc # "done"
    /\ ~stdoutBroken
    /\ stdoutBroken' = TRUE
    /\ UNCHANGED <<impl, termVars, pc, exit, script, srcVars,
                   decVars, echoed, loopTook, nFail, readAfterFail, screenClears>>

----------------------------------------------------------------------------
(* RawModeGuard *)

\* what enable_raw_mode makes of the two system calls' return values
EnableResult_unchecked(getOk, setOk) == IF ~getOk THEN "errGet" ELSE "ok"

EnableResult(getOk, setOk) ==
    IF ~getOk THEN "errGet" ELSE IF ~setOk THEN "errSet" ELSE "ok"

\* a caller that reports the error and goes on into the loop
EnableRawMode_enterOnErr ==
    /\ pc = "start"
    /\ pre' = dev
    /\ \E getOk \in BOOLEAN, setOk \in BOOLEAN :
         LET res == EnableResult(getOk, setOk)
             original_termios == dev
             raw_termios == RawTermios(original_termios)
         IN  /\ enableErr' = IF ~getOk THEN "get" ELSE IF ~setOk THEN "set" ELSE "none"
             /\ IF res = "errGet"
                THEN \* tcgetattr failed: return Err
                     /\ UNCHANGED <<dev, guard, entered, applied>>
                     /\ pc' = "loop" /\ exit' = "error"
                ELSE /\ applied' = <<raw_termios>>
                     /\ dev' = TcSetAttr(dev, raw_termios, setOk)
                     /\ IF res = "errSet"
                        THEN \* tcsetattr failed: return Err
                             /\ UNCHANGED <<guard, entered>>
                             /\ pc' = "loop" /\ exit' = "error"
                        ELSE IF stdoutBroken
                        THEN \* println!("Raw mode enabled.") panics before the guard exists
                             /\ UNCHANGED <<guard, entered>>
                             /\ pc' = "done" /\ exit' = "panic"
                        ELSE /\ guard' = <<NewGuard(original_termios, raw_termios)>>
                             /\ entered' = TRUE
                             /\ pc' = "loop" /\ UNCHANGED exit
    \* clear_screen() follows the match in torus/terminal_handler.rs only
    /\ screenClears' = IF pc' = "loop" /\ impl = "torus" THEN screenClears + 1 ELSE screenClears
    /\ UNCHANGED <<impl, restoreCount, restoreOk, dropped, script, srcVars, stdoutBroken,
                   decVars, echoed, loopTook, nFail, readAfterFail>>

\* `let _ = RawModeGuard::enable_raw_mode()`: the guard is dropped as soon as it is built
EnableRawMode_guardNotBound ==
    /\ pc = "start"
    /\ pre' = dev
    /\ \E getOk \in BOOLEAN, setOk \in BOOLEAN :
         LET res == EnableResult(getOk, setOk)
             original_termios == dev
             raw_termios == RawTermios(original_termios)
         IN  /\ enableErr' = IF ~getOk THEN "get" ELSE IF ~setOk THEN "set" ELSE "none"
             /\ IF res = "errGet"
                THEN \* tcgetattr failed: return Err
                     /\ UNCHANGED <<dev, guard, entered, applied>>
                     /\ pc' = "done" /\ exit' = "error"
                ELSE /\ applied' = <<raw_termios>>
                     /\ dev' = IF res = "ok" /\ ~stdoutBroken
                               THEN dev  \* raw mode applied and undone at once
                               ELSE TcSetAttr(dev, raw_termios, setOk)
                     /\ IF res = "errSet"
                        THEN \* tcsetattr failed: return Err
                             /\ UNCHANGED <<guard, entered>>
                             /\ pc' = "done" /\ exit' = "error"
                        ELSE IF stdoutBroken
                        THEN \* println!("Raw mode enabled.") panics before the guard exists
                             /\ UNCHANGED <<guard, entered>>
                             /\ pc' = "done" /\ exit' = "panic"
                        ELSE /\ guard' = <<>>
                             /\ entered' = TRUE
                             /\ pc' = "loop" /\ UNCHANGED exit
    \* clear_screen() follows the match in torus/terminal_handler.rs only
    /\ screenClears' = IF pc' = "loop" /\ impl = "torus" THEN screenClears + 1 ELSE screenClears
    /\ UNCHANGED <<impl, restoreCount, restoreOk, dropped, script, srcVars, stdoutBroken,
                   decVars, echoed, loopTook, nFail, readAfterFail>>

EnableRawMode ==
    /\ pc = "start"
    /\ pre' = dev
    /\ \E getOk \in BOOLEAN, setOk \in BOOLEAN :
         LET res == EnableResult(getOk, setOk)
             original_termios == dev
             raw_termios == RawTermios(original_termios)
         IN  /\ enableErr' = IF ~getOk THEN "get" ELSE IF ~setOk THEN "set" ELSE "none"
             /\ IF res = "errGet"
                THEN \* tcgetattr failed: return Err
                     /\ UNCHANGED <<dev, guard, entered, applied>>
                     /\ pc' = "done" /\ exit' = "error"
                ELSE /\ applied' = <<raw_termios>>
                     /\ dev' = TcSetAttr(dev, raw_termios, setOk)
                     /\ IF res = "errSet"
                        THEN \* tcsetattr failed: return Err
                             /\ UNCHANGED <<guard, entered>>
                             /\ pc' = "done" /\ exit' = "error"
                        ELSE IF stdoutBroken
                        THEN \* println!("Raw mode enabled.") panics before the guard exists
                             /\ UNCHANGED <<guard, entered>>
                             /\ pc' = "done" /\ exit' = "panic"
                        ELSE /\ guard' = <<NewGuard(original_termios, raw_termios)>>
                             /\ entered' = TRUE
                             /\ pc' = "loop" /\ UNCHANGED exit
    \* clear_screen() follows the match in torus/terminal_handler.rs only
    /\ screenClears' = IF pc' = "loop" /\ impl = "torus" THEN screenClears + 1 ELSE screenClears
    /\ UNCHANGED <<impl, restoreCount, restoreOk, dropped, script, srcVars, stdoutBroken,
                   decVars, echoed, loopTook, nFail, readAfterFail>>

\* a restore that flips the raw-mode flags of the device back instead of
\* re-applying the saved block
DropEffect_toggle(cur, g, ok) ==
    LET m == {"ICANON", "ECHO", "ISIG", "IEXTEN"} IN
    IF ok THEN [cur EXCEPT !.c_lflag = (@ \ m) \cup (m \ @)] ELSE cur

\* what the body of drop does to the device: tcsetattr(fd, TCSANOW, &self.original_termios)
DropEffect(cur, g, ok) == TcSetAttr(cur, RestoredTermios(g), ok)

\* Drop that panics when the restore fails
DropGuard_panicOnFail ==
    /\ pc \in {"drop", "unwind"}
    /\ guard # <<>>
    /\ \E ok \in BOOLEAN :
         /\ dev' = DropEffect(dev, guard[1], ok)
         /\ restoreOk' = ok
         /\ exit' = IF ~ok \/ stdoutBroken THEN "panic" ELSE exit
    /\ restoreCount' = restoreCount + 1
    /\ guard' = <<>>
    /\ pc' = "done"
    /\ dropped' = guard
    /\ UNCHANGED <<impl, pre, entered, enableErr, applied, script, srcVars, stdoutBroken,
                   decVars, echoed, loopTook, nFail, readAfterFail, screenClears>>

\* Drop that does not run while a panic unwinds
DropGuard_notOnUnwind ==
    /\ pc \in {"drop", "unwind"}
    /\ guard # <<>>
    /\ \E ok \in BOOLEAN :
         /\ dev' = IF pc = "drop" THEN TcSetAttr(dev, guard[1].original_termios, ok) ELSE dev
         /\ restoreOk' = ok
         /\ exit' = IF ok /\ stdoutBroken THEN "panic" ELSE exit
    /\ restoreCount' = IF pc = "drop" THEN restoreCount + 1 ELSE restoreCount
    /\ guard' = <<>>
    /\ pc' = "done"
    /\ dropped' = guard
    /\ UNCHANGED <<impl, pre, entered, enableErr, applied, script, srcVars, stdoutBroken,
                   decVars, echoed, loopTook, nFail, readAfterFail, screenClears>>

\* impl Drop for RawModeGuard, run when _guard goes out of scope: at the end of
\* run_app_in_raw_mode (pc = "drop") or while a panic unwinds through it (pc = "unwind")
DropGuard ==
    /\ pc \in {"drop", "unwind"}
    /\ guard # <<>>
    /\ \E ok \in BOOLEAN :
         /\ dev' = DropEffect(dev, guard[1], ok)
         /\ restoreOk' = ok
         /\ exit' = IF ok /\ stdoutBroken THEN "panic" ELSE exit
    /\ restoreCount' = restoreCount + 1
    /\ guard' = <<>>
    /\ pc' = "done"
    /\ dropped' = guard
    /\ UNCHANGED <<impl, pre, entered, enableErr, applied, script, srcVars, stdoutBroken,
                   decVars, echoed, loopTook, nFail, readAfterFail, screenClears>>

----------------------------------------------------------------------------
(* std::io::Stdin::read_exact of one byte *)

\* a byte is in the buffer of Stdin or queued on fd 0
StdinAvail == sbuf # <<>> \/ kq # <<>>

\* the byte returned
StdinByte == IF sbuf # <<>> THEN Head(sbuf) ELSE Head(kq)

\* an empty buffer is refilled with everything queued on fd 0
StdinBufAfter == IF sbuf # <<>> THEN Tail(sbuf) ELSE Tail(kq)

StdinKqAfter == IF sbuf # <<>> THEN kq ELSE <<>>

----------------------------------------------------------------------------
(* src/torus/input_handler.rs *)

\* `buf[0] as char`: the char whose code point is the byte read
CharOf(b) == b

\* `c as u8`: the low eight bits of the code point
U8Of(ch) == ch % 256

\* editor_read_key that takes the byte after an escape byte along with it
EditorReadKey_eatsFollowUp(q) ==
    IF q # <<>>
    THEN [ok |-> TRUE, ch |-> <<CharOf(Head(q))>>,
          rest |-> IF Head(q) = ESC /\ Len(q) > 1 THEN Tail(Tail(q)) ELSE Tail(q)]
    ELSE [ok |-> FALSE, ch |-> <<>>, rest |-> q]

\* editor_read_key(fd) on a source with q queued: read(fd, buf, 1) == 1 gives
\* Ok(buf[0] as char), anything else (0 at end of input) gives Err.  With
\* nothing queued and the source still open the read blocks (see ReadReturns).
EditorReadKey(q) ==
    IF q # <<>>
    THEN [ok |-> TRUE, ch |-> <<CharOf(Head(q))>>, rest |-> Tail(q)]
    ELSE [ok |-> FALSE, ch |-> <<>>, rest |-> q]

\* a read of one byte on fd 0 returns: a byte is queued or the source has ended
ReadReturns == kq # <<>> \/ hup

\* a lone escape byte handed back as a key
EscReadFailed_asKey(first) == <<U8Of(first)>>

\* `editor_read_key(STDIN_FILENO).ok()?` after the escape byte: None on Err
EscReadFailed(first) == <<>>

\* a decoder that hands back the last byte it read
ProcessKeypressReturn_last(first, second) ==
    IF second # <<>> THEN <<U8Of(second[1])>> ELSE <<U8Of(first)>>

\* `return Some(c as u8)`: the first byte, also for an escape sequence
ProcessKeypressReturn(first, second) == <<U8Of(first)>>

\* process_keypress up to the point where it returns or waits for the byte after ESC
ProcessKeypressFirst ==
    /\ pc = "decode"
    /\ ReadReturns
    /\ LET r == EditorReadKey(kq) IN
       IF ~r.ok
       THEN \* Err propagated by `.ok()?` as None
            /\ ret' = <<>>
            /\ nFail' = nFail + 1
            /\ pc' = "act"
            /\ kq' = r.rest
            /\ UNCHANGED <<c, d, branch, discarded, decTook, exit>>
       ELSE LET b == U8Of(r.ch[1]) IN
            /\ c' = b
            /\ d' = <<>>
            /\ decTook' = Append(decTook, b)
            /\ branch' = Classify(b)
            /\ UNCHANGED nFail
            /\ IF stdoutBroken
               THEN \* println! of the branch panics
                    /\ kq' = r.rest
                    /\ pc' = "unwind" /\ exit' = "panic"
                    /\ UNCHANGED <<ret, discarded>>
               ELSE IF Classify(b) = "escape"
               THEN /\ kq' = r.rest
                    /\ pc' = "decode2"
                    /\ UNCHANGED <<ret, discarded, exit>>
               ELSE IF Classify(b) = "printable"
               THEN \* tcflush(0, TCIFLUSH) discards what is queued on the terminal
                    /\ kq' = <<>>
                    /\ discarded' = discarded \o r.rest
                    /\ ret' = ProcessKeypressReturn(b, <<>>)
                    /\ pc' = "act"
                    /\ UNCHANGED exit
               ELSE /\ kq' = r.rest
                    /\ ret' = ProcessKeypressReturn(b, <<>>)
                    /\ pc' = "act"
                    /\ UNCHANGED <<discarded, exit>>
    /\ readAfterFail' = (readAfterFail \/ nFail > 0)
    /\ UNCHANGED <<impl, termVars, script, future, sbuf, hup, stdoutBroken,
                   echoed, loopTook, screenClears>>

\* process_keypress after ESC: the second editor_read_key and the return
ProcessKeypressSecond ==
    /\ pc = "decode2"
    /\ ReadReturns
    /\ LET r == EditorReadKey(kq) IN
       IF ~r.ok
       THEN /\ ret' = EscReadFailed(c)
            /\ nFail' = nFail + 1
            /\ pc' = "act"
            /\ kq' = r.rest
            /\ UNCHANGED <<d, decTook, exit>>
       ELSE /\ d' = <<U8Of(r.ch[1])>>
            /\ kq' = r.rest
            /\ decTook' = Append(decTook, U8Of(r.ch[1]))
            /\ UNCHANGED nFail
            /\ IF stdoutBroken
               THEN /\ pc' = "unwind" /\ exit' = "panic"
                    /\ UNCHANGED ret
               ELSE /\ ret' = ProcessKeypressReturn(c, d')
                    /\ pc' = "act"
                    /\ UNCHANGED exit
    /\ readAfterFail' = (readAfterFail \/ nFail > 0)
    /\ UNCHANGED <<impl, termVars, script, future, sbuf, hup, stdoutBroken,
                   c, branch, discarded, echoed, loopTook, screenClears>>

----------------------------------------------------------------------------
(* src/torus/terminal_handler.rs: run_app_in_raw_mode, the loop *)

\* stdin.read_exact(&mut byte) at the head of the loop
LoopRead ==
    /\ pc = "loop"
    /\ impl = "torus"
    /\ IF StdinAvail
       THEN /\ loopTook' = Append(loopTook, StdinByte)
            /\ sbuf' = StdinBufAfter
            /\ kq' = StdinKqAfter
            /\ pc' = "decode"
            /\ UNCHANGED nFail
       ELSE \* is_ok() is false: the body is skipped and the loop goes round
            /\ hup
            /\ nFail < MaxRetry
            /\ nFail' = nFail + 1
            /\ UNCHANGED <<loopTook, sbuf, kq, pc>>
    /\ readAfterFail' = (readAfterFail \/ nFail > 0)
    /\ UNCHANGED <<impl, termVars, exit, script, future, hup, stdoutBroken,
                   decVars, echoed, screenClears>>

\* the rest of the body: unwrap, echo, quit check
LoopAct ==
    /\ pc = "act"
    /\ IF ret = <<>>
       THEN \* char_byte.unwrap() on None
            /\ pc' = "unwind" /\ exit' = "panic"
            /\ UNCHANGED <<echoed, screenClears>>
       ELSE IF stdoutBroken
       THEN \* write_all / flush .unwrap() on Err
            /\ pc' = "unwind" /\ exit' = "panic"
            /\ UNCHANGED <<echoed, screenClears>>
       ELSE /\ echoed' = Append(echoed, ret[1])
            /\ IF ret[1] = KeyQ
               THEN \* clear_screen(); break
                    /\ screenClears' = screenClears + 1
                    /\ pc' = "drop" /\ exit' = "break"
               ELSE pc' = "loop" /\ UNCHANGED <<exit, screenClears>>
    /\ UNCHANGED <<impl, termVars, script, srcVars, stdoutBroken,
                   decVars, loopTook, nFail, readAfterFail>>

----------------------------------------------------------------------------
(* src/main.rs: run_app_in_raw_mode, one iteration of the loop *)

MainIteration ==
    /\ pc = "loop"
    /\ impl = "main"
    /\ IF StdinAvail
       THEN /\ loopTook' = Append(loopTook, StdinByte)
            /\ sbuf' = StdinBufAfter
            /\ kq' = StdinKqAfter
            /\ UNCHANGED nFail
            /\ IF stdoutBroken
               THEN /\ pc' = "unwind" /\ exit' = "panic"
                    /\ UNCHANGED echoed
               ELSE /\ echoed' = Append(echoed, StdinByte)
                    /\ IF StdinByte = KeyQ
                       THEN pc' = "drop" /\ exit' = "break"
                       ELSE pc' = "loop" /\ UNCHANGED exit
       ELSE /\ hup
            /\ nFail < MaxRetry
            /\ nFail' = nFail + 1
            /\ UNCHANGED <<loopTook, sbuf, kq, pc, exit, echoed>>
    /\ readAfterFail' = (readAfterFail \/ nFail > 0)
    /\ UNCHANGED <<impl, termVars, script, future, hup, stdoutBroken, decVars, screenClears>>

----------------------------------------------------------------------------

Next ==
    \/ Type
    \/ Hangup
    \/ BreakStdout
    \/ EnableRawMode
    \/ LoopRead
    \/ ProcessKeypressFirst
    \/ ProcessKeypressSecond
    \/ LoopAct
    \/ MainIteration
    \/ DropGuard

Spec == Init /\ [][Next]_vars

\* The body of drop run once more for a guard it has already run for (drop
\* takes &mut self, the saved block is still there afterwards).
ReleaseAgain ==
    /\ pc = "done"
    /\ dropped # <<>>
    /\ restoreCount < MaxRelease
    /\ \E ok \in BOOLEAN :
         /\ dev' = DropEffect(dev, dropped[1], ok)
         /\ restoreOk' = ok
    /\ restoreCount' = restoreCount + 1
    /\ UNCHANGED <<impl, pre, guard, entered, enableErr, applied, pc, exit, dropped,
                   script, srcVars, stdoutBroken, decVars, echoed, loopTook, nFail,
                   readAfterFail, screenClears>>

NextRelease == Next \/ ReleaseAgain

\* the session, followed by further runs of the restore step
SpecRelease == Init /\ [][NextRelease]_vars

TypeOK ==
    /\ impl \in {"main", "torus"}
    /\ dev \in AllTermios /\ pre \in AllTermios
    /\ Len(guard) <= 1 /\ Len(applied) <= 1
    /\ pc \in {"start", "loop", "decode", "decode2", "act", "drop", "unwind", "done"}
    /\ exit \in {"none", "error", "break", "panic"}
    /\ restoreCount \in 0 .. 1
    /\ script = loopTook \o sbuf \o kq \o future \/ impl = "torus"
    /\ nFail \in 0 .. MaxRetry
    /\ Len(dropped) <= 1
    /\ screenClears \in 0 .. 2

----------------------------------------------------------------------------
(* Properties *)

RawModeGuardLive == guard # <<>>

\* C1: when a panic has unwound out of the scope of a guard and the restoring
\* tcsetattr succeeded, the device holds the configuration it had immediately
\* before enable_raw_mode was called.
C1_AbnormalExitRestores ==
    (entered /\ exit = "panic" /\ pc = "done" /\ restoreOk) => dev = pre

\* a read inside the decoder failed, unwrap panicked in the loop, the guard was
\* dropped during unwinding and the device, which raw mode had changed, is back
C1_Witness ==
    /\ entered /\ exit = "panic" /\ pc = "done" /\ restoreOk
    /\ nFail > 0 /\ decTook # <<>>
    /\ applied # <<pre>>
    /\ dev = pre

\* C2 as stated: after a successful enable_raw_mode and the drop of the guard
\* the device configuration equals the initial one in every field.
C2_RoundTripAlways ==
    (entered /\ ~RawModeGuardLive) =>
        /\ dev.c_lflag = pre.c_lflag
        /\ dev.c_iflag = pre.c_iflag
        /\ dev.c_oflag = pre.c_oflag
        /\ dev.c_cc = pre.c_cc

\* C2 amended: after a successful enable_raw_mode and a drop of the guard whose
\* tcsetattr succeeded, the device configuration equals the initial one in
\* every field.
C2_RoundTripWhenRestored ==
    (entered /\ ~RawModeGuardLive /\ restoreOk) =>
        /\ dev.c_lflag = pre.c_lflag
        /\ dev.c_iflag = pre.c_iflag
        /\ dev.c_oflag = pre.c_oflag
        /\ dev.c_cc = pre.c_cc

\* the loop was left by the quit byte, the guard dropped, and a configuration
\* that differed from the raw one in flags and control characters is back
C2_Witness ==
    /\ entered /\ ~RawModeGuardLive /\ restoreOk /\ exit = "break"
    /\ pre.c_lflag = LFlags /\ pre.c_iflag = IFlags
    /\ pre.c_cc.VMIN # RawVMin /\ pre.c_cc.VTIME # RawVTime
    /\ dev = pre

\* C3: the tcsetattr of Drop runs exactly once for each successful
\* enable_raw_mode: not before the guard is dropped, once when
\* run_app_in_raw_mode has been left by the break or by a panic, never twice.
C3_ExactlyOnceRelease ==
    /\ restoreCount <= 1
    /\ RawModeGuardLive => restoreCount = 0
    /\ (entered /\ pc = "done") => restoreCount = 1

\* run_app_in_raw_mode of the torus loop was left by a panic of the echo and
\* the restore ran once
C3_Witness ==
    /\ entered /\ pc = "done" /\ exit = "panic" /\ stdoutBroken
    /\ impl = "torus" /\ ret # <<>> /\ nFail = 0
    /\ restoreCount = 1

\* C4: while a guard is live, ICANON, ECHO and ISIG are all off on the device,
\* for the guard of src/main.rs and for the one of torus/terminal_handler.rs.
C4_Exclusion ==
    RawModeGuardLive => dev.c_lflag \cap {"ICANON", "ECHO", "ISIG"} = {}

\* C5: the termios that enable_raw_mode of torus/terminal_handler.rs applies is
\* the baseline read from the device with ICANON, ECHO, ISIG, IEXTEN and ICRNL
\* cleared, VMIN = 1 and VTIME = 0, every other flag and control character as
\* in the baseline.
C5_RawIsMaskOnBaseline ==
    (impl = "torus" /\ applied # <<>>) =>
        LET raw == applied[1] IN
        /\ \A f \in LFlags :
             f \in raw.c_lflag <=>
                 (f \in pre.c_lflag /\ f \notin {"ICANON", "ECHO", "ISIG", "IEXTEN"})
        /\ \A f \in IFlags : f \in raw.c_iflag <=> (f \in pre.c_iflag /\ f # "ICRNL")
        /\ raw.c_oflag = pre.c_oflag
        /\ raw.c_cc.VMIN = 1
        /\ raw.c_cc.VTIME = 0
        /\ raw.c_cc.VINTR = pre.c_cc.VINTR

\* the raw block was applied on a device that had every flag set
C5_Witness ==
    /\ impl = "torus" /\ applied # <<>> /\ entered
    /\ pre.c_lflag = LFlags /\ pre.c_iflag = IFlags /\ pre.c_oflag = OFlags
    /\ pre.c_cc.VMIN = 0 /\ pre.c_cc.VTIME = 2
    /\ dev = applied[1]
    /\ dev.c_lflag = {"ECHOE"} /\ dev.c_iflag = {"IXON"}

\* C6: when tcgetattr or tcsetattr fails in enable_raw_mode, the call returns
\* an error, no guard exists, the device is as before the call and no restore
\* is ever attempted.
C6_FailedEntryNoTrace ==
    enableErr # "none" =>
        /\ exit = "error" /\ pc = "done"
        /\ ~RawModeGuardLive /\ ~entered
        /\ dev = pre
        /\ restoreCount = 0
        /\ loopTook = <<>> /\ decTook = <<>>

\* tcsetattr failed on a device in cooked mode
C6_Witness ==
    /\ enableErr = "set" /\ exit = "error"
    /\ applied # <<>> /\ applied # <<pre>>
    /\ dev = pre /\ "ICANON" \in dev.c_lflag

\* C7: once a read of the input source has failed, the loop issues no further
\* read: it is not at a position from which it reads, and no read follows a
\* failed one.
C7_ReadFailureEndsLoop ==
    /\ nFail > 0 => pc \notin {"loop", "decode", "decode2"}
    /\ ~readAfterFail

FirstQ == CHOOSE k \in 1 .. Len(script) :
              script[k] = KeyQ /\ \A j \in 1 .. k - 1 : script[j] # KeyQ

\* C8: when the loop has ended through its break, it has taken from the source
\* exactly the bytes up to the first 'q', echoed the bytes before it in input
\* order, and the bytes after the 'q' are all still waiting (typed or not,
\* buffered by Stdin or not), neither taken by a read of the session,
\* discarded nor echoed.  (Scripts with no escape byte.)
C8_QuitKeyTermination ==
    (exit = "break" /\ \A j \in 1 .. Len(script) : script[j] # ESC) =>
        /\ \E k \in 1 .. Len(script) : script[k] = KeyQ
        /\ Len(echoed) \in {FirstQ - 1, FirstQ}
        /\ \A i \in 1 .. Len(echoed) : echoed[i] = script[i]
        /\ sbuf \o kq \o future = SubSeq(script, FirstQ + 1, Len(script))
        /\ discarded = <<>>

\* C9: a first byte in 32..126 is handled by the printable branch.
C9_PrintableRange ==
    (branch # "none" /\ c >= 32 /\ c <= 126) => branch = "printable"

\* C10: 27 followed by any byte is an escape sequence, 1..26 is a control key,
\* and 0, 28..31 and 127..255 are other characters.
C10_EscControlOther ==
    branch # "none" =>
        /\ (c = 27 /\ d # <<>>) => (branch = "escape" /\ d[1] \in Byte /\ ret \in {<<>>, <<27>>})
        /\ (c >= 1 /\ c <= 26) => branch = "control"
        /\ (c = 0 \/ (c >= 28 /\ c <= 31) \/ c >= 127) => branch = "other"
        /\ (branch = "escape" => c = 27) /\ (branch = "control" => c \in 1 .. 26)
        /\ branch = "other" => (c = 0 \/ c \in 28 .. 31 \/ c >= 123)

\* the decoder returned for 27 followed by 97
C10_Witness ==
    /\ branch = "escape" /\ c = 27 /\ d = <<97>> /\ ret = <<27>> /\ pc = "act"

\* a step that is the first read of a call of process_keypress
FirstReadStep == pc = "decode" /\ pc' # "decode"

\* a step that is the read after an escape byte
SecondReadStep == pc = "decode2" /\ pc' # "decode2"

\* C11: a call of the decoder takes exactly the bytes of its event from the
\* source: one byte when the first is not 27, one more for the byte after 27;
\* the bytes queued behind them stay queued, in order, and nothing is discarded.
C11_DecoderTakesOwnBytesOnly ==
    [][ /\ (FirstReadStep /\ kq # <<>>) => (kq' = Tail(kq) /\ discarded' = discarded)
        /\ (SecondReadStep /\ kq # <<>>) => (kq' = Tail(kq) /\ discarded' = discarded)
        /\ (FirstReadStep /\ kq # <<>> /\ Head(kq) # ESC) => pc' # "decode2"
        /\ ((FirstReadStep \/ SecondReadStep) /\ kq = <<>>) => (kq' = kq /\ discarded' = discarded)
      ]_vars

\* C12: when the byte read is 27 and the read of the following byte has
\* failed, process_keypress has returned None, not a key.
C12_TruncatedEscapeIsNone ==
    (pc = "act" /\ branch = "escape" /\ c = ESC /\ d = <<>>) =>
        (ret = <<>> /\ nFail > 0)

\* the source ended right after an escape byte and the decoder returned None
C12_Witness ==
    /\ pc = "act" /\ branch = "escape" /\ c = ESC /\ d = <<>>
    /\ ret = <<>> /\ hup /\ kq = <<>>
    /\ decTook # <<>> /\ decTook[Len(decTook)] = ESC

\* C13: editor_read_key makes one read of one byte.  A byte that is read is
\* returned as it is, 27 included, and the bytes behind it stay queued; a read
\* that fails takes nothing, is counted once (no retry) and makes
\* process_keypress return None.
C13_SingleByteRead ==
    [][ /\ (FirstReadStep /\ kq # <<>>) =>
              /\ c' = Head(kq)
              /\ decTook' = Append(decTook, Head(kq))
              /\ nFail' = nFail
              /\ Head(kq) = ESC => (kq' = Tail(kq) /\ d' = <<>>)
        /\ (SecondReadStep /\ kq # <<>>) =>
              /\ d' = <<Head(kq)>>
              /\ decTook' = Append(decTook, Head(kq))
              /\ kq' = Tail(kq)
              /\ nFail' = nFail
        /\ ((FirstReadStep \/ SecondReadStep) /\ kq = <<>>) =>
              /\ hup
              /\ decTook' = decTook /\ kq' = kq
              /\ nFail' = nFail + 1
              /\ ret' = <<>> /\ pc' = "act"
      ]_vars

\* editor_read_key returned 200 and then, called again, an error
C13_Witness ==
    /\ decTook = <<200>> /\ c = 200 /\ ret = <<>> /\ nFail = 1 /\ pc = "act"

\* a step that is the drop of the guard
DropStep == pc \in {"drop", "unwind"} /\ pc' = "done"

\* C14: when the tcsetattr of Drop fails, the drop raises no panic and does not
\* try again: the way run_app_in_raw_mode is being left stays what it was, the
\* guard is gone, the restore has run once and control is past the guard's
\* scope; the device is left as it was.
C14_RestoreFailureNonFatal ==
    /\ []((restoreCount > 0 /\ ~restoreOk) =>
             (restoreCount = 1 /\ ~RawModeGuardLive /\ pc = "done"))
    /\ [][(DropStep /\ ~restoreOk') =>
             /\ exit' = exit
             /\ guard' = <<>> /\ dropped' = guard
             /\ restoreCount' = restoreCount + 1
             /\ dev' = dev
         ]_vars

\* the loop was left by the quit byte, the restore failed, and
\* run_app_in_raw_mode returned normally with the device still raw
C14_Witness ==
    /\ pc = "done" /\ exit = "break" /\ restoreCount = 1 /\ ~restoreOk
    /\ ~RawModeGuardLive /\ dev = applied[1] /\ dev # pre

\* C15: when enable_raw_mode has returned an error, run_app_in_raw_mode has
\* returned without reading a byte, echoing, clearing the screen or changing
\* the device.
C15_NoLoopEntryOnFailure ==
    exit = "error" =>
        /\ pc = "done"
        /\ loopTook = <<>> /\ decTook = <<>> /\ sbuf = <<>> /\ discarded = <<>>
        /\ sbuf \o kq \o future = script
        /\ echoed = <<>>
        /\ screenClears = 0
        /\ dev = pre
        /\ nFail = 0

\* tcgetattr failed with input already typed: the bytes are still queued
C15_Witness ==
    /\ exit = "error" /\ enableErr = "get" /\ pc = "done"
    /\ impl = "torus" /\ kq # <<>> /\ kq \o future = script
    /\ echoed = <<>> /\ screenClears = 0

C17_LoopReadsThroughDecoderOnly ==
    impl = "torus" => (loopTook = <<>> /\ sbuf = <<>>)

\* C18: the loop is left by its break only right after a key whose first byte
\* is 'q', which has been echoed; after an escape sequence the loop echoes 27
\* and goes on, whatever the second byte is.
C18_QuitOnOriginatingByte ==
    /\ []((impl = "torus" /\ exit = "break") =>
             /\ c = KeyQ /\ d = <<>> /\ ret = <<KeyQ>>
             /\ echoed # <<>> /\ echoed[Len(echoed)] = KeyQ)
    /\ []((impl = "main" /\ exit = "break") =>
             /\ loopTook # <<>> /\ loopTook[Len(loopTook)] = KeyQ
             /\ echoed # <<>> /\ echoed[Len(echoed)] = KeyQ)
    /\ [][(pc = "act" /\ pc' # "act" /\ ret # <<>> /\ branch = "escape") =>
             /\ pc' # "drop" /\ exit' # "break"
             /\ pc' = "loop" => echoed' = Append(echoed, ESC)
         ]_vars

\* 27 then 'q' was decoded as one escape sequence: 27 was echoed and the loop
\* went on
C18_Witness ==
    /\ impl = "torus" /\ pc = "loop" /\ exit = "none"
    /\ branch = "escape" /\ c = ESC /\ d = <<KeyQ>> /\ ret = <<ESC>>
    /\ echoed # <<>> /\ echoed[Len(echoed)] = ESC

\* a step in which the session reads, or tries to read, from the input source
ReadStep ==
    \/ loopTook' # loopTook
    \/ decTook' # decTook
    \/ sbuf' # sbuf
    \/ nFail' # nFail

\* C19: every read of the session happens while the guard is live: the raw
\* block has been applied, is what the device holds, and the original one has
\* not been re-applied.
C19_ReadsOnlyInRawMode ==
    [][ReadStep =>
          /\ RawModeGuardLive /\ entered /\ enableErr = "none"
          /\ applied # <<>> /\ dev = applied[1]
          /\ restoreCount = 0
      ]_vars

\* the loop and the decoder have both read, on a device that raw mode changed
C19_Witness ==
    /\ loopTook # <<>> /\ decTook # <<>> /\ pc = "act"
    /\ RawModeGuardLive /\ dev = applied[1] /\ dev # pre /\ restoreCount = 0

====
